---- MODULE Spec2Model ----
(***************************************************************************)
(* Eksi Sozluk earthquake detector: the detection engine                   *)
(* (earthquake_patterns.py) and the deduplicated monitoring loop           *)
(* (earthquake_detector.py).                                               *)
(*                                                                         *)
(* Text is modelled at character level.  A string is a sequence of         *)
(* characters; an ASCII character is the one-character string itself and   *)
(* a non-ASCII character is named by its code point:                       *)
(*   U+0131 dotless i     U+011F g breve     U+00FC u diaeresis            *)
(*   U+015F s cedilla     U+00F6 o diaeresis U+00E7 c cedilla              *)
(*   U+00E2 a circumflex  U+0307 combining dot above                       *)
(*   U+0130 capital dotted I, U+011E, U+00DC, U+015E, U+00D6, U+00C7,      *)
(*   U+00C2: the capitals of the above.                                    *)
(***************************************************************************)
EXTENDS Integers, Sequences, FiniteSets, Bags, TLC

VARIABLES
    pc,                    \* position of the single thread of control
    basliks,               \* titles of the batch returned by fetch_gundem
    idx,                   \* position of the for loop in basliks
    pattern_match,         \* result of is_earthquake_baslik for basliks[idx]
    today,                 \* the calendar date datetime.now() returns
    detected_earthquakes,  \* the dedup set of monitor_earthquakes
    fetch_count,           \* fetches that returned to the loop
    events,                \* bag of identities of the lines appended to DETECTED_EVENTS_FILE
    sink_calls,            \* bag of identities save_earthquake_event was called with
    sink_failed,           \* identities whose save_earthquake_event call raised
    ok_cycles,             \* cycles whose fetch returned topics
    polls,                 \* calls of fetch_gundem made so far
    cycle_kind,            \* outcome of the current cycle's fetch
    slept,                 \* time.sleep calls completed since the last fetch
    summary,               \* the count logged by the stop handler, -1 before
    days_passed            \* midnights since the start

----------------------------------------------------------------------------
(* Characters                                                              *)

Digits == {"0","1","2","3","4","5","6","7","8","9"}

AsciiLower ==
    {"a","b","c","d","e","f","g","h","i","j","k","l","m",
     "n","o","p","q","r","s","t","u","v","w","x","y","z"}

AsciiUpper ==
    {"A","B","C","D","E","F","G","H","I","J","K","L","M",
     "N","O","P","Q","R","S","T","U","V","W","X","Y","Z"}

TurkishLower == {"U+0131","U+011F","U+00FC","U+015F","U+00F6","U+00E7","U+00E2"}

TurkishUpper == {"U+0130","U+011E","U+00DC","U+015E","U+00D6","U+00C7","U+00C2"}

\* Python's \w on str: alphanumerics and the underscore.  The combining dot
\* U+0307 (category Mn) and the space are not word characters.
WordChars == Digits \cup AsciiLower \cup AsciiUpper \cup TurkishLower \cup TurkishUpper \cup {"_"}

\* str.lower() per character.  It is not locale aware ("I" gives "i") and
\* it maps U+0130 to two characters: "i" followed by U+0307.
LowerPairs ==
    { <<"A",<<"a">>>>, <<"B",<<"b">>>>, <<"C",<<"c">>>>, <<"D",<<"d">>>>, <<"E",<<"e">>>>,
      <<"F",<<"f">>>>, <<"G",<<"g">>>>, <<"H",<<"h">>>>, <<"I",<<"i">>>>, <<"J",<<"j">>>>,
      <<"K",<<"k">>>>, <<"L",<<"l">>>>, <<"M",<<"m">>>>, <<"N",<<"n">>>>, <<"O",<<"o">>>>,
      <<"P",<<"p">>>>, <<"Q",<<"q">>>>, <<"R",<<"r">>>>, <<"S",<<"s">>>>, <<"T",<<"t">>>>,
      <<"U",<<"u">>>>, <<"V",<<"v">>>>, <<"W",<<"w">>>>, <<"X",<<"x">>>>, <<"Y",<<"y">>>>,
      <<"Z",<<"z">>>>,
      <<"U+0130",<<"i","U+0307">>>>, <<"U+011E",<<"U+011F">>>>, <<"U+00DC",<<"U+00FC">>>>,
      <<"U+015E",<<"U+015F">>>>, <<"U+00D6",<<"U+00F6">>>>, <<"U+00C7",<<"U+00E7">>>>,
      <<"U+00C2",<<"U+00E2">>>> }

LowerTable == [c \in {p[1] : p \in LowerPairs} |-> (CHOOSE p \in LowerPairs : p[1] = c)[2]]

lower_char(c) == IF c \in DOMAIN LowerTable THEN LowerTable[c] ELSE <<c>>

RECURSIVE str_lower(_)
str_lower(s) == IF s = <<>> THEN <<>> ELSE lower_char(Head(s)) \o str_lower(Tail(s))

\* str.replace(old, new) for one-character old and new.
str_replace(s, old, new) == [i \in 1..Len(s) |-> IF s[i] = old THEN new ELSE s[i]]

----------------------------------------------------------------------------
(* earthquake_patterns.py: the lexicons                                    *)

PROVINCES ==
  <<
    <<"a","d","a","n","a">>, <<"a","d","U+0131","y","a","m","a","n">>,
    <<"a","f","y","o","n","k","a","r","a","h","i","s","a","r">>, <<"a","U+011F","r","U+0131">>,
    <<"a","k","s","a","r","a","y">>, <<"a","m","a","s","y","a">>, <<"a","n","k","a","r","a">>,
    <<"a","n","t","a","l","y","a">>, <<"a","r","d","a","h","a","n">>,
    <<"a","r","t","v","i","n">>, <<"a","y","d","U+0131","n">>,
    <<"b","a","l","U+0131","k","e","s","i","r">>, <<"b","a","r","t","U+0131","n">>,
    <<"b","a","t","m","a","n">>, <<"b","a","y","b","u","r","t">>,
    <<"b","i","l","e","c","i","k">>, <<"b","i","n","g","U+00F6","l">>,
    <<"b","i","t","l","i","s">>, <<"b","o","l","u">>, <<"b","u","r","d","u","r">>,
    <<"b","u","r","s","a">>, <<"U+00E7","a","n","a","k","k","a","l","e">>,
    <<"U+00E7","a","n","k","U+0131","r","U+0131">>, <<"U+00E7","o","r","u","m">>,
    <<"d","e","n","i","z","l","i">>, <<"d","i","y","a","r","b","a","k","U+0131","r">>,
    <<"d","U+00FC","z","c","e">>, <<"e","d","i","r","n","e">>,
    <<"e","l","a","z","U+0131","U+011F">>, <<"e","r","z","i","n","c","a","n">>,
    <<"e","r","z","u","r","u","m">>, <<"e","s","k","i","U+015F","e","h","i","r">>,
    <<"g","a","z","i","a","n","t","e","p">>, <<"g","i","r","e","s","u","n">>,
    <<"g","U+00FC","m","U+00FC","U+015F","h","a","n","e">>,
    <<"h","a","k","k","U+00E2","r","i">>, <<"h","a","t","a","y">>,
    <<"U+0131","U+011F","d","U+0131","r">>, <<"i","s","p","a","r","t","a">>,
    <<"i","s","t","a","n","b","u","l">>, <<"i","U+0307","s","t","a","n","b","u","l">>,
    <<"i","z","m","i","r">>, <<"i","U+0307","z","m","i","r">>,
    <<"k","a","h","r","a","m","a","n","m","a","r","a","U+015F">>,
    <<"k","a","r","a","b","U+00FC","k">>, <<"k","a","r","a","m","a","n">>, <<"k","a","r","s">>,
    <<"k","a","s","t","a","m","o","n","u">>, <<"k","a","y","s","e","r","i">>,
    <<"k","i","l","i","s">>, <<"k","U+0131","r","U+0131","k","k","a","l","e">>,
    <<"k","U+0131","r","k","l","a","r","e","l","i">>,
    <<"k","U+0131","r","U+015F","e","h","i","r">>, <<"k","o","c","a","e","l","i">>,
    <<"k","o","n","y","a">>, <<"k","U+00FC","t","a","h","y","a">>,
    <<"m","a","l","a","t","y","a">>, <<"m","a","n","i","s","a">>, <<"m","a","r","d","i","n">>,
    <<"m","e","r","s","i","n">>, <<"m","u","U+011F","l","a">>, <<"m","u","U+015F">>,
    <<"n","e","v","U+015F","e","h","i","r">>, <<"n","i","U+011F","d","e">>, <<"o","r","d","u">>,
    <<"o","s","m","a","n","i","y","e">>, <<"r","i","z","e">>, <<"s","a","k","a","r","y","a">>,
    <<"s","a","m","s","u","n">>, <<"s","i","i","r","t">>, <<"s","i","n","o","p">>,
    <<"s","i","v","a","s">>, <<"U+015F","a","n","l","U+0131","u","r","f","a">>,
    <<"U+015F","U+0131","r","n","a","k">>, <<"t","e","k","i","r","d","a","U+011F">>,
    <<"t","o","k","a","t">>, <<"t","r","a","b","z","o","n">>, <<"t","u","n","c","e","l","i">>,
    <<"u","U+015F","a","k">>, <<"v","a","n">>, <<"y","a","l","o","v","a">>,
    <<"y","o","z","g","a","t">>, <<"z","o","n","g","u","l","d","a","k">>,
    <<"a","d","i","y","a","m","a","n">>, <<"a","f","y","o","n">>, <<"a","g","r","i">>,
    <<"a","y","d","i","n">>, <<"b","a","l","i","k","e","s","i","r">>,
    <<"b","a","r","t","i","n">>, <<"b","a","y","b","u","r","t">>, <<"b","i","n","g","o","l">>,
    <<"c","a","n","a","k","k","a","l","e">>, <<"c","a","n","k","i","r","i">>,
    <<"c","o","r","u","m">>, <<"d","i","y","a","r","b","a","k","i","r">>,
    <<"d","u","z","c","e">>, <<"e","l","a","z","i","g">>,
    <<"g","u","m","u","s","h","a","n","e">>, <<"h","a","k","k","a","r","i">>,
    <<"i","g","d","i","r">>, <<"k","a","h","r","a","m","a","n","m","a","r","a","s">>,
    <<"k","a","r","a","b","u","k">>, <<"k","i","r","i","k","k","a","l","e">>,
    <<"k","i","r","k","l","a","r","e","l","i">>, <<"k","i","r","s","e","h","i","r">>,
    <<"k","u","t","a","h","y","a">>, <<"m","u","g","l","a">>, <<"m","u","s">>,
    <<"n","i","g","d","e">>, <<"s","a","n","l","i","u","r","f","a">>,
    <<"s","i","r","n","a","k">>, <<"t","e","k","i","r","d","a","g">>
  >>

MONTHS ==
  <<
    [name |-> <<"o","c","a","k">>, num |-> 1],
    [name |-> <<"U+015F","u","b","a","t">>, num |-> 2],
    [name |-> <<"s","u","b","a","t">>, num |-> 2], [name |-> <<"m","a","r","t">>, num |-> 3],
    [name |-> <<"n","i","s","a","n">>, num |-> 4],
    [name |-> <<"m","a","y","U+0131","s">>, num |-> 5],
    [name |-> <<"m","a","y","i","s">>, num |-> 5],
    [name |-> <<"h","a","z","i","r","a","n">>, num |-> 6],
    [name |-> <<"t","e","m","m","u","z">>, num |-> 7],
    [name |-> <<"a","U+011F","u","s","t","o","s">>, num |-> 8],
    [name |-> <<"a","g","u","s","t","o","s">>, num |-> 8],
    [name |-> <<"e","y","l","U+00FC","l">>, num |-> 9],
    [name |-> <<"e","y","l","u","l">>, num |-> 9], [name |-> <<"e","k","i","m">>, num |-> 10],
    [name |-> <<"k","a","s","U+0131","m">>, num |-> 11],
    [name |-> <<"k","a","s","i","m">>, num |-> 11],
    [name |-> <<"a","r","a","l","U+0131","k">>, num |-> 12],
    [name |-> <<"a","r","a","l","i","k">>, num |-> 12]
  >>

EARTHQUAKE_KEYWORDS == <<<<"d","e","p","r","e","m">>, <<"d","e","p","r","e","m","i">>>>

\* The replacements dict of normalize_turkish, in insertion order.
replacements ==
    << <<"U+0131","i">>, <<"U+011F","g">>, <<"U+00FC","u">>, <<"U+015F","s">>,
       <<"U+00F6","o">>, <<"U+00E7","c">>, <<"U+0130","i">>, <<"U+011E","g">>,
       <<"U+00DC","u">>, <<"U+015E","s">>, <<"U+00D6","o">>, <<"U+00C7","c">> >>

RECURSIVE apply_replacements(_, _)
apply_replacements(s, k) ==
    IF k > Len(replacements) THEN s
    ELSE apply_replacements(str_replace(s, replacements[k][1], replacements[k][2]), k + 1)

normalize_turkish(text) == apply_replacements(str_lower(text), 1)

----------------------------------------------------------------------------
(* Regular-expression primitives used by is_earthquake_baslik              *)

IsWordAt(s, i) == i >= 1 /\ i <= Len(s) /\ s[i] \in WordChars

\* \b between s[i-1] and s[i] (i = 1 is the start, i = Len(s)+1 the end).
WordBoundary(s, i) == IsWordAt(s, i - 1) # IsWordAt(s, i)

MatchAt(s, p, w) ==
    /\ p + Len(w) - 1 <= Len(s)
    /\ \A k \in 1..Len(w) : s[p + k - 1] = w[k]

\* w in s
Contains(s, w) == \E p \in 1..(Len(s) - Len(w) + 1) : MatchAt(s, p, w)

\* re.search(r'\b' + re.escape(w) + r'\b', s)
SearchWholeWord(s, w) ==
    \E p \in 1..(Len(s) - Len(w) + 1) :
        MatchAt(s, p, w) /\ WordBoundary(s, p) /\ WordBoundary(s, p + Len(w))

\* Length matched at p by \b([1-9]|[12][0-9]|3[01])\b, alternatives tried in
\* order with backtracking over the closing \b; 0 when there is no match at p.
DayMatchLen(s, p) ==
    IF ~WordBoundary(s, p) THEN 0
    ELSE IF s[p] \in (Digits \ {"0"}) /\ WordBoundary(s, p + 1) THEN 1
    ELSE IF p + 1 <= Len(s) /\ s[p] \in {"1","2"} /\ s[p + 1] \in Digits
            /\ WordBoundary(s, p + 2) THEN 2
    ELSE IF p + 1 <= Len(s) /\ s[p] = "3" /\ s[p + 1] \in {"0","1"}
            /\ WordBoundary(s, p + 2) THEN 2
    ELSE 0

\* Mutant of YearMatchAt: the closing \b is dropped, so the first four
\* digits of a longer number pass for a year
YearMatchAt_NoClosingBoundary(s, p) ==
    /\ WordBoundary(s, p)
    /\ p + 3 <= Len(s)
    /\ s[p] = "2" /\ s[p + 1] = "0" /\ s[p + 2] \in Digits /\ s[p + 3] \in Digits

\* \b(20\d{2})\b at p
YearMatchAt(s, p) ==
    /\ WordBoundary(s, p)
    /\ p + 3 <= Len(s)
    /\ s[p] = "2" /\ s[p + 1] = "0" /\ s[p + 2] \in Digits /\ s[p + 3] \in Digits
    /\ WordBoundary(s, p + 4)

DigitValue(c) ==
    CASE c = "0" -> 0 [] c = "1" -> 1 [] c = "2" -> 2 [] c = "3" -> 3 [] c = "4" -> 4
      [] c = "5" -> 5 [] c = "6" -> 6 [] c = "7" -> 7 [] c = "8" -> 8 [] c = "9" -> 9

\* int(text) for a string of decimal digits
RECURSIVE int(_)
int(s) == IF s = <<>> THEN 0 ELSE 10 * int(SubSeq(s, 1, Len(s) - 1)) + DigitValue(s[Len(s)])

Min(S) == CHOOSE x \in S : \A y \in S : x <= y

NoGroup == <<>>

\* Mutant of day_match: the rightmost match is taken
day_match_Rightmost(title) ==
    LET ps == {p \in 1..Len(title) : DayMatchLen(title, p) > 0}
        last == CHOOSE p \in ps : \A q \in ps : q <= p
    IN  IF ps = {} THEN NoGroup
        ELSE SubSeq(title, last, last + DayMatchLen(title, last) - 1)

\* re.search(day pattern, title).group(1): the leftmost match, or NoGroup
day_match(title) ==
    LET ps == {p \in 1..Len(title) : DayMatchLen(title, p) > 0}
    IN  IF ps = {} THEN NoGroup
        ELSE SubSeq(title, Min(ps), Min(ps) + DayMatchLen(title, Min(ps)) - 1)

\* re.search(year pattern, title).group(1): the leftmost match, or NoGroup
year_match(title) ==
    LET ps == {p \in 1..Len(title) : YearMatchAt(title, p)}
    IN  IF ps = {} THEN NoGroup ELSE SubSeq(title, Min(ps), Min(ps) + 3)

----------------------------------------------------------------------------
(* Calendar dates (datetime.date, proleptic Gregorian)                     *)

IsLeap(y) == y % 4 = 0 /\ (y % 100 # 0 \/ y % 400 = 0)

DaysInMonth(y, m) ==
    IF m = 2 THEN (IF IsLeap(y) THEN 29 ELSE 28)
    ELSE IF m \in {4, 6, 9, 11} THEN 30 ELSE 31

\* datetime(year, month, day) raises ValueError unless this holds
ValidDate(y, m, d) ==
    /\ y >= 1 /\ y <= 9999
    /\ m >= 1 /\ m <= 12
    /\ d >= 1 /\ d <= DaysInMonth(y, m)

RECURSIVE DaysBeforeMonth(_, _)
DaysBeforeMonth(y, m) == IF m = 1 THEN 0 ELSE DaysBeforeMonth(y, m - 1) + DaysInMonth(y, m - 1)

\* date.toordinal()
Ordinal(y, m, d) ==
    LET p == y - 1
    IN  p * 365 + (p \div 4) - (p \div 100) + (p \div 400) + DaysBeforeMonth(y, m) + d

Abs(x) == IF x < 0 THEN 0 - x ELSE x

\* Mutant of is_date_current: the abs() is dropped, so every past date
\* passes
is_date_current_NoAbs(day, month, year, tolerance_days, now) ==
    IF ~ValidDate(year, month, day) THEN FALSE
    ELSE Ordinal(year, month, day) - Ordinal(now.year, now.month, now.day)
             <= tolerance_days

\* now is the date datetime.now().date() returns at the call
is_date_current(day, month, year, tolerance_days, now) ==
    IF ~ValidDate(year, month, day) THEN FALSE
    ELSE Abs(Ordinal(year, month, day) - Ordinal(now.year, now.month, now.day))
             <= tolerance_days

----------------------------------------------------------------------------
(* is_earthquake_baslik                                                    *)

TOLERANCE_DAYS == 1

NoMatch == [match |-> FALSE]

\* Mutant of first_month: the spelling that stands first in the title wins
first_month_LeftmostInTitle(title_lower, k) ==
    LET occ == {o \in (1..Len(title_lower)) \X (k..Len(MONTHS)) :
                   MatchAt(title_lower, o[1], MONTHS[o[2]].name)}
    IN  IF occ = {} THEN 0
        ELSE (CHOOSE o \in occ :
                 \A q \in occ : o[1] < q[1] \/ (o[1] = q[1] /\ o[2] <= q[2]))[2]

\* Index of the first entry of MONTHS whose spelling is a substring of
\* title_lower, 0 when there is none (the for/break loop).
RECURSIVE first_month(_, _)
first_month(title_lower, k) ==
    IF k > Len(MONTHS) THEN 0
    ELSE IF Contains(title_lower, MONTHS[k].name) THEN k
    ELSE first_month(title_lower, k + 1)

PROVINCES_normalized == [k \in 1..Len(PROVINCES) |-> normalize_turkish(PROVINCES[k])]

\* Mutant of first_province: the last matching entry of the list wins
first_province_LastInList(title_lower, title_normalized, k) ==
    LET found == {j \in k..Len(PROVINCES) :
                     \/ SearchWholeWord(title_lower, PROVINCES[j])
                     \/ SearchWholeWord(title_normalized, normalize_turkish(PROVINCES[j]))}
    IN  IF found = {} THEN 0 ELSE CHOOSE j \in found : \A i \in found : i <= j

\* Index of the first entry of PROVINCES matched as a whole word in
\* title_lower, or (normalized) in title_normalized; 0 when there is none.
RECURSIVE first_province(_, _, _)
first_province(title_lower, title_normalized, k) ==
    IF k > Len(PROVINCES) THEN 0
    ELSE IF \/ SearchWholeWord(title_lower, PROVINCES[k])
            \/ SearchWholeWord(title_normalized, PROVINCES_normalized[k]) THEN k
    ELSE first_province(title_lower, title_normalized, k + 1)

\* Mutant of has_keyword: the keyword has to stand as a word of its own
has_keyword_WholeWord(title_lower) ==
    \E k \in 1..Len(EARTHQUAKE_KEYWORDS) : SearchWholeWord(title_lower, EARTHQUAKE_KEYWORDS[k])

has_keyword(title_lower) ==
    \E k \in 1..Len(EARTHQUAKE_KEYWORDS) : Contains(title_lower, EARTHQUAKE_KEYWORDS[k])

is_earthquake_baslik(title, now) ==
    LET title_lower == str_lower(title)
        title_normalized == normalize_turkish(title)
        dm == day_match(title)
        day == int(dm)
        mk == first_month(title_lower, 1)
        month == MONTHS[mk].num
        ym == year_match(title)
        year == int(ym)
        pk == first_province(title_lower, title_normalized, 1)
        has_earthquake_keyword == has_keyword(title_lower)
    IN  IF dm = NoGroup THEN NoMatch
        ELSE IF mk = 0 THEN NoMatch
        ELSE IF ym = NoGroup THEN NoMatch
        ELSE IF ~is_date_current(day, month, year, TOLERANCE_DAYS, now) THEN NoMatch
        ELSE IF pk = 0 THEN NoMatch
        ELSE [match |-> TRUE,
              day |-> day,
              month |-> month,
              month_name |-> MONTHS[mk].name,
              year |-> year,
              province |-> PROVINCES[pk],
              has_earthquake_keyword |-> has_earthquake_keyword,
              confidence |-> IF has_earthquake_keyword THEN "high" ELSE "medium"]

----------------------------------------------------------------------------
(* earthquake_detector.py: configuration and inputs                        *)

HEARTBEAT_INTERVAL == 2

\* Bounds of the exploration
MaxCycles == 3      \* fetch_gundem calls per run
MaxBatch == 2       \* topics per fetched batch
MaxDays == 1        \* midnights per run

\* The topics served are dated the day before the start: they leave the
\* tolerance window at the first midnight.
StartDate == [year |-> 2025, month |-> 10, day |-> 23]

\* Titles the topic source serves to the monitoring loop.  A topic is
\* named by its title in ASCII; TitleChars gives the characters.
TitleIstanbul ==
    <<"2","2"," ","e","k","i","m"," ","2","0","2","5"," ",
      "i","s","t","a","n","b","u","l"," ","d","e","p","r","e","m","i">>

TitleIstanbulDotted ==
    <<"2","2"," ","e","k","i","m"," ","2","0","2","5"," ",
      "U+0130","s","t","a","n","b","u","l"," ","d","e","p","r","e","m","i">>

TitleGold == <<"g","r","a","m"," ","a","l","t","U+0131","n">>

LoopTitles ==
    {"22 ekim 2025 istanbul depremi", "22 ekim 2025 <U+0130>stanbul depremi",
     "gram alt<U+0131>n"}

TitleChars(t) ==
    CASE t = "22 ekim 2025 istanbul depremi" -> TitleIstanbul
      [] t = "22 ekim 2025 <U+0130>stanbul depremi" -> TitleIstanbulDotted
      [] t = "gram alt<U+0131>n" -> TitleGold

RECURSIVE SeqsUpTo(_, _)
SeqsUpTo(S, n) ==
    IF n = 0 THEN {<<>>}
    ELSE LET shorter == SeqsUpTo(S, n - 1)
         IN  shorter \cup {Append(s, x) : s \in shorter, x \in S}

\* The non-empty batches fetch_gundem may return
Batches == SeqsUpTo(LoopTitles, MaxBatch) \ {<<>>}

\* The day after d
NextDay(d) ==
    IF d.day < DaysInMonth(d.year, d.month) THEN [d EXCEPT !.day = d.day + 1]
    ELSE IF d.month < 12 THEN [year |-> d.year, month |-> d.month + 1, day |-> 1]
    ELSE [year |-> d.year + 1, month |-> 1, day |-> 1]

RECURSIVE DaysAfter(_, _)
DaysAfter(d, n) == IF n = 0 THEN d ELSE NextDay(DaysAfter(d, n - 1))

\* Mutant of pattern_table: the date is taken once, when the program starts
pattern_table_FrozenDate ==
    [t \in LoopTitles |->
        [n \in 0..MaxDays |-> is_earthquake_baslik(TitleChars(t), StartDate)]]

\* is_earthquake_baslik on the titles and dates of the loop, evaluated once
pattern_table ==
    [t \in LoopTitles |->
        [n \in 0..MaxDays |-> is_earthquake_baslik(TitleChars(t), DaysAfter(StartDate, n))]]

\* earthquake_id: day-month-year-province
earthquake_id(pm) == <<pm.day, pm.month, pm.year, pm.province>>

\* One more copy of x in bag b
AddCopy(b, x) == b (+) SetToBag({x})

----------------------------------------------------------------------------
(* monitor_earthquakes                                                     *)

vars == <<pc, basliks, idx, pattern_match, today, detected_earthquakes, fetch_count,
          events, sink_calls, sink_failed, ok_cycles, polls, cycle_kind, slept,
          summary, days_passed>>

\* Variables only the alert path writes
alert_vars == <<detected_earthquakes, events, sink_calls, sink_failed>>

Init ==
    /\ pc = "fetch"
    /\ basliks = <<>>
    /\ idx = 0
    /\ pattern_match = NoMatch
    /\ today = StartDate
    /\ detected_earthquakes = {}
    /\ fetch_count = 0
    /\ events = EmptyBag
    /\ sink_calls = EmptyBag
    /\ sink_failed = {}
    /\ ok_cycles = 0
    /\ polls = 0
    /\ cycle_kind = "start"
    /\ slept = 0
    /\ summary = -1
    /\ days_passed = 0

\* Positions inside the try body of the while loop
TryBody ==
    {"fetch", "fetch_log_nolist", "fetch_log_http", "fetch_log_error", "heartbeat",
     "for", "save", "save_log", "add", "sleep"}

\* Positions inside the "except Exception" clause of the while loop
ExceptBody == {"handler_log", "handler_sleep"}

\* fetch_gundem is called (line 123)
CallFetch ==
    /\ pc = "fetch"
    /\ polls < MaxCycles
    /\ polls' = polls + 1
    /\ slept' = 0

\* Mutant of ReturnFromFetch: an empty result goes straight to the next
\* fetch, without the sleep
ReturnFromFetch_EmptyNoSleep(b) ==
    /\ fetch_count' = fetch_count + 1
    /\ basliks' = b
    /\ idx' = 1
    /\ pc' = IF b = <<>> THEN "fetch"
             ELSE IF (fetch_count + 1) % HEARTBEAT_INTERVAL = 0 THEN "heartbeat"
             ELSE "for"

\* fetch_gundem returns b to the loop: fetch_count += 1, then "if basliks"
\* and the heartbeat test
ReturnFromFetch(b) ==
    /\ fetch_count' = fetch_count + 1
    /\ basliks' = b
    /\ idx' = 1
    /\ pc' = IF b = <<>> THEN "sleep"
             ELSE IF (fetch_count + 1) % HEARTBEAT_INTERVAL = 0 THEN "heartbeat"
             ELSE "for"

\* The page is fetched and parsed into a non-empty list of topics
FetchTopics ==
    /\ CallFetch
    /\ \E b \in Batches : ReturnFromFetch(b)
    /\ ok_cycles' = ok_cycles + 1
    /\ cycle_kind' = "topics"
    /\ UNCHANGED <<pattern_match, today, alert_vars, summary, days_passed>>

\* The topic list is there and holds no link: basliks is empty
FetchNoItems ==
    /\ CallFetch
    /\ ReturnFromFetch(<<>>)
    /\ cycle_kind' = "empty"
    /\ UNCHANGED <<pattern_match, today, alert_vars, ok_cycles, summary, days_passed>>

\* The request or the parse fails, or the page has no topic list:
\* fetch_gundem is about to log the condition
FetchFails ==
    /\ CallFetch
    /\ \E p \in {"fetch_log_nolist", "fetch_log_http", "fetch_log_error"} : pc' = p
    /\ cycle_kind' = "failed"
    /\ UNCHANGED <<basliks, idx, pattern_match, today, alert_vars, fetch_count, ok_cycles,
                   summary, days_passed>>

\* fetch_gundem logged the condition and returns []
FetchLogged ==
    /\ pc \in {"fetch_log_nolist", "fetch_log_http", "fetch_log_error"}
    /\ ReturnFromFetch(<<>>)
    /\ UNCHANGED <<pattern_match, today, alert_vars, ok_cycles, polls, cycle_kind, slept,
                   summary, days_passed>>

\* log_message raises in fetch_gundem.  Raised in the try body (line 74) it
\* is caught by fetch_gundem's "except Exception"; raised in an except
\* clause (lines 100, 103) it leaves fetch_gundem and reaches the loop's
\* "except Exception".
FetchLogRaises ==
    /\ pc \in {"fetch_log_nolist", "fetch_log_http", "fetch_log_error"}
    /\ pc' = IF pc = "fetch_log_nolist" THEN "fetch_log_error" ELSE "handler_log"
    /\ UNCHANGED <<basliks, idx, pattern_match, today, alert_vars, fetch_count, ok_cycles,
                   polls, cycle_kind, slept, summary, days_passed>>

\* The heartbeat line is logged (line 129)
Heartbeat ==
    /\ pc = "heartbeat"
    /\ pc' = "for"
    /\ UNCHANGED <<basliks, idx, pattern_match, today, alert_vars, fetch_count, ok_cycles,
                   polls, cycle_kind, slept, summary, days_passed>>

\* log_message raises on the heartbeat line
HeartbeatRaises ==
    /\ pc = "heartbeat"
    /\ pc' = "handler_log"
    /\ UNCHANGED <<basliks, idx, pattern_match, today, alert_vars, fetch_count, ok_cycles,
                   polls, cycle_kind, slept, summary, days_passed>>

\* One iteration of "for baslik in basliks" up to the call of
\* save_earthquake_event (lines 132-141); the loop ends into time.sleep
CheckBaslik ==
    /\ pc = "for"
    /\ IF idx > Len(basliks)
       THEN /\ pc' = "sleep"
            /\ UNCHANGED <<idx, pattern_match, sink_calls>>
       ELSE LET pm == pattern_table[basliks[idx]][days_passed]
            IN  /\ pattern_match' = pm
                /\ IF pm.match /\ earthquake_id(pm) \notin detected_earthquakes
                   THEN /\ pc' = "save"
                        /\ sink_calls' = AddCopy(sink_calls, earthquake_id(pm))
                        /\ idx' = idx
                   ELSE /\ pc' = "for"
                        /\ idx' = idx + 1
                        /\ UNCHANGED sink_calls
    /\ UNCHANGED <<basliks, today, detected_earthquakes, events, sink_failed, fetch_count,
                   ok_cycles, polls, cycle_kind, slept, summary, days_passed>>

\* save_earthquake_event appends the event line (lines 51-53)
SaveWrite ==
    /\ pc = "save"
    /\ events' = AddCopy(events, earthquake_id(pattern_match))
    /\ pc' = "save_log"
    /\ UNCHANGED <<basliks, idx, pattern_match, today, detected_earthquakes, sink_calls,
                   sink_failed, fetch_count, ok_cycles, polls, cycle_kind, slept, summary,
                   days_passed>>

\* open() or the write raises: nothing is appended
SaveWriteRaises ==
    /\ pc = "save"
    /\ sink_failed' = sink_failed \cup {earthquake_id(pattern_match)}
    /\ pc' = "handler_log"
    /\ UNCHANGED <<basliks, idx, pattern_match, today, detected_earthquakes, events,
                   sink_calls, fetch_count, ok_cycles, polls, cycle_kind, slept, summary,
                   days_passed>>

\* The five alert lines are logged (lines 55-60) and the call returns
SaveLogged ==
    /\ pc = "save_log"
    /\ pc' = "add"
    /\ UNCHANGED <<basliks, idx, pattern_match, today, alert_vars, fetch_count, ok_cycles,
                   polls, cycle_kind, slept, summary, days_passed>>

\* log_message raises on one of the alert lines, after the event was written
SaveLogRaises ==
    /\ pc = "save_log"
    /\ sink_failed' = sink_failed \cup {earthquake_id(pattern_match)}
    /\ pc' = "handler_log"
    /\ UNCHANGED <<basliks, idx, pattern_match, today, detected_earthquakes, events,
                   sink_calls, fetch_count, ok_cycles, polls, cycle_kind, slept, summary,
                   days_passed>>

\* Mutant of AddDetected: the store keeps the latest identity only
AddDetected_KeepsLatest ==
    /\ pc = "add"
    /\ detected_earthquakes' = {earthquake_id(pattern_match)}
    /\ idx' = idx + 1
    /\ pc' = "for"
    /\ UNCHANGED <<basliks, pattern_match, today, events, sink_calls, sink_failed,
                   fetch_count, ok_cycles, polls, cycle_kind, slept, summary, days_passed>>

\* detected_earthquakes.add(earthquake_id) (line 142)
AddDetected ==
    /\ pc = "add"
    /\ detected_earthquakes' = detected_earthquakes \cup {earthquake_id(pattern_match)}
    /\ idx' = idx + 1
    /\ pc' = "for"
    /\ UNCHANGED <<basliks, pattern_match, today, events, sink_calls, sink_failed,
                   fetch_count, ok_cycles, polls, cycle_kind, slept, summary, days_passed>>

\* time.sleep(POLL_INTERVAL) returns: line 144, or line 153 in the handler
Sleep ==
    /\ pc \in {"sleep", "handler_sleep"}
    /\ slept' = slept + 1
    /\ pc' = "fetch"
    /\ cycle_kind' = "start"
    /\ UNCHANGED <<basliks, idx, pattern_match, today, alert_vars, fetch_count, ok_cycles,
                   polls, summary, days_passed>>

\* Mutant of HandlerLogged: the error is logged and the for loop goes on
\* with the next topic, as if the try were inside the for loop
HandlerLogged_ResumesBatch ==
    /\ pc = "handler_log"
    /\ pc' = "for"
    /\ idx' = idx + 1
    /\ UNCHANGED <<basliks, pattern_match, today, alert_vars, fetch_count, ok_cycles,
                   polls, cycle_kind, slept, summary, days_passed>>

\* "except Exception": the error is logged (line 152)
HandlerLogged ==
    /\ pc = "handler_log"
    /\ pc' = "handler_sleep"
    /\ UNCHANGED <<basliks, idx, pattern_match, today, alert_vars, fetch_count, ok_cycles,
                   polls, cycle_kind, slept, summary, days_passed>>

\* log_message raises inside "except Exception": nothing catches it and
\* the process ends with a traceback
HandlerLogRaises ==
    /\ pc = "handler_log"
    /\ pc' = "crashed"
    /\ UNCHANGED <<basliks, idx, pattern_match, today, alert_vars, fetch_count, ok_cycles,
                   polls, cycle_kind, slept, summary, days_passed>>

\* KeyboardInterrupt.  Raised in the try body it is caught by "except
\* KeyboardInterrupt"; raised inside the "except Exception" clause no
\* clause of the statement catches it and the process ends with a traceback.
Interrupt ==
    /\ pc \in TryBody \cup ExceptBody
    /\ pc' = IF pc \in TryBody THEN "stop_log" ELSE "killed"
    /\ UNCHANGED <<basliks, idx, pattern_match, today, alert_vars, fetch_count, ok_cycles,
                   polls, cycle_kind, slept, summary, days_passed>>

\* "except KeyboardInterrupt": the three lines are logged, then break
StopLogged ==
    /\ pc = "stop_log"
    /\ summary' = fetch_count
    /\ pc' = "done"
    /\ UNCHANGED <<basliks, idx, pattern_match, today, alert_vars, fetch_count, ok_cycles,
                   polls, cycle_kind, slept, days_passed>>

\* log_message raises on line k of the stop handler (147, 148, 149), the
\* summary being line 148: the exception leaves monitor_earthquakes
StopLogRaises ==
    /\ pc = "stop_log"
    /\ \E k \in 1..3 : summary' = IF k = 3 THEN fetch_count ELSE summary
    /\ pc' = "stop_crashed"
    /\ UNCHANGED <<basliks, idx, pattern_match, today, alert_vars, fetch_count, ok_cycles,
                   polls, cycle_kind, slept, days_passed>>

\* Midnight passes while the loop runs
Midnight ==
    /\ pc \in TryBody \cup ExceptBody
    /\ days_passed < MaxDays
    /\ days_passed' = days_passed + 1
    /\ today' = NextDay(today)
    /\ UNCHANGED <<pc, basliks, idx, pattern_match, alert_vars, fetch_count, ok_cycles,
                   polls, cycle_kind, slept, summary>>

Next ==
    \/ FetchTopics
    \/ FetchNoItems
    \/ FetchFails
    \/ FetchLogged
    \/ FetchLogRaises
    \/ Heartbeat
    \/ HeartbeatRaises
    \/ CheckBaslik
    \/ SaveWrite
    \/ SaveWriteRaises
    \/ SaveLogged
    \/ SaveLogRaises
    \/ AddDetected
    \/ Sleep
    \/ HandlerLogged
    \/ HandlerLogRaises
    \/ Interrupt
    \/ StopLogged
    \/ StopLogRaises
    \/ Midnight

Spec == Init /\ [][Next]_vars

----------------------------------------------------------------------------
(* test_patterns: is_earthquake_baslik applied to one title at one date    *)

NowSpan == 2        \* bound: the test dates run 2 * NowSpan days from each start

DigitChars == <<"0","1","2","3","4","5","6","7","8","9">>

\* The decimal numeral of n, as Python's "%d" writes it
RECURSIVE Numeral(_)
Numeral(n) == IF n < 10 THEN <<DigitChars[n + 1]>>
              ELSE Numeral(n \div 10) \o <<DigitChars[(n % 10) + 1]>>

\* " ".join of the non-empty parts
RECURSIVE JoinParts(_)
JoinParts(parts) ==
    IF parts = <<>> THEN <<>>
    ELSE LET rest == JoinParts(Tail(parts))
         IN  IF Head(parts) = <<>> THEN rest
             ELSE IF rest = <<>> THEN Head(parts)
             ELSE Head(parts) \o <<" ">> \o rest

MonthNames == {MONTHS[k].name : k \in 1..Len(MONTHS)}

W_van == <<"v","a","n">>
W_ekim == <<"e","k","i","m">>
W_depremi == <<"d","e","p","r","e","m","i">>

\* Titles "<day> <month> <year> van" around month ends, a leap day and a
\* year end
DateTitleDays == {1, 2, 27, 28, 29, 30, 31}
DateTitleMonths == {1, 2, 4, 17}      \* indices in MONTHS: ocak, subat, mart, aralik
DateTitleYears == {2000, 2024, 2025}

DateTitle(d, k, y) == JoinParts(<<Numeral(d), MONTHS[k].name, Numeral(y), W_van>>)

DateTitles ==
    {DateTitle(d, k, y) : d \in DateTitleDays, k \in DateTitleMonths, y \in DateTitleYears}

DateStarts ==
    {[year |-> 2000, month |-> 2, day |-> 27], [year |-> 2024, month |-> 2, day |-> 27],
     [year |-> 2025, month |-> 2, day |-> 26], [year |-> 2024, month |-> 12, day |-> 29]}

DateTodays == {DaysAfter(s, n) : s \in DateStarts, n \in 0..(2 * NowSpan)}

\* The date test_patterns was written for
RefDate == [year |-> 2025, month |-> 10, day |-> 22]

\* A spelling with its first letter capitalised the Turkish way (i gives
\* the dotted capital U+0130, the dotless U+0131 gives I)
CapitalPairs ==
    { <<"i","U+0130">>, <<"U+0131","I">>, <<"U+011F","U+011E">>, <<"U+00FC","U+00DC">>,
      <<"U+015F","U+015E">>, <<"U+00F6","U+00D6">>, <<"U+00E7","U+00C7">>,
      <<"U+00E2","U+00C2">> }
    \cup {<<p[2][1], p[1]>> : p \in {q \in LowerPairs : q[1] \in AsciiUpper \ {"I"}}}

Capital(c) == IF \E p \in CapitalPairs : p[1] = c
              THEN (CHOOSE p \in CapitalPairs : p[1] = c)[2] ELSE c

Capitalized(w) == <<Capital(Head(w))>> \o Tail(w)

\* The accented entries of PROVINCES (lines 12-23) come first, the ASCII
\* variants (lines 25-29) after them
NumAccentedEntries == 83

AccentedSpellings ==
    {PROVINCES[k] : k \in 1..NumAccentedEntries}
    \cup {Capitalized(PROVINCES[k]) : k \in 1..NumAccentedEntries}

\* Titles "22 ekim 2025 <province spelling>"
ProvinceTitles ==
    {JoinParts(<<Numeral(22), W_ekim, Numeral(2025), s>>) : s \in AccentedSpellings}

\* Titles in which the day, the month or the year may be missing or
\* malformed: <day> <month> <year> <province> <keyword>
FieldDays ==
    {<<>>, <<"2","2">>, <<"0","2","2">>, <<"3","2">>, <<"2","2","x">>, <<"2","2","_">>}
FieldMonths ==
    {<<>>, W_ekim, <<"e","k","m">>, <<"E","K","U+0130","M">>, <<"e","k","i","m","d","e">>}
FieldYears ==
    {<<>>, <<"2","0","2","5">>, <<"1","9","9","9">>, <<"2","0","2","5","5">>,
     <<"2","0","2">>, <<"x","2","0","2","5">>}
FieldProvinces == {<<>>, W_van}
FieldKeywords == {<<>>, W_depremi}

FieldTitles ==
    {JoinParts(<<d, m, y, p, k>>) :
        d \in FieldDays, m \in FieldMonths, y \in FieldYears, p \in FieldProvinces,
        k \in FieldKeywords} \ {<<>>}

W_deprem == <<"d","e","p","r","e","m">>

\* What may follow the province in a title: nothing, the two keywords, in
\* capitals, inside a longer word, another word for a quake, a broken word
KeywordForms ==
    {<<>>, W_deprem, W_depremi, <<"D","E","P","R","E","M">>,
     <<"D","e","p","r","e","m","i">>, <<"d","e","p","r","e","m","z","e","d","e">>,
     <<"s","a","r","s","U+0131","n","t","U+0131","s","U+0131">>,
     <<"d","e","p"," ","r","e","m">>}

\* Titles "22 ekim 2025 van <keyword form>"
KeywordTitle(kw) == JoinParts(<<Numeral(22), W_ekim, Numeral(2025), W_van, kw>>)

KeywordTitles == {KeywordTitle(kw) : kw \in KeywordForms}

\* The day before RefDate, RefDate and the day after
RefWindow == {DaysAfter([year |-> 2025, month |-> 10, day |-> 21], n) : n \in 0..2}

\* Words after the date of a title: province spellings from both ends of
\* PROVINCES, accented and ASCII, capitalised, and "vanda" (van inside a
\* longer word)
PairWords ==
    {<<>>, <<"a","d","a","n","a">>, W_van, <<"a","U+011F","r","U+0131">>,
     <<"a","g","r","i">>, <<"i","z","m","i","r">>, <<"U+0130","z","m","i","r">>,
     <<"h","a","k","k","U+00E2","r","i">>, <<"v","a","n","d","a">>}

\* Titles "22 ekim 2025 <word> <word>"
PairTitle(a, b) == JoinParts(<<Numeral(22), W_ekim, Numeral(2025), a, b>>)

PairTitles == {PairTitle(a, b) : a \in PairWords, b \in PairWords}

W_ocak == <<"o","c","a","k">>
W_mart == <<"m","a","r","t">>

\* Words between the day and the year of a title: month spellings, in
\* capitals, and inside a longer word ("ekimde", and "mart" in U+0131-final
\* "marti", a gull)
MonthWords ==
    {<<>>, W_ocak, W_mart, W_ekim, <<"M","A","R","T">>,
     <<"m","a","r","t","U+0131">>, <<"e","k","i","m","d","e">>}

\* Titles "22 <word> <word> 2025 van"
MonthPairTitle(a, b) == JoinParts(<<Numeral(22), a, b, Numeral(2025), W_van>>)

MonthPairTitles == {MonthPairTitle(a, b) : a \in MonthWords, b \in MonthWords}

\* The 22nd of January, March and October 2025
MonthTodays == {[year |-> 2025, month |-> m, day |-> 22] : m \in {1, 3, 10}}

\* Number-like words of a title: days, numbers that are no day (100, 022,
\* 32), a number glued to a letter, a decimal
DayWords ==
    {<<>>, <<"5">>, <<"2","2">>, <<"1","0","0">>, <<"0","2","2">>, <<"3","2">>,
     <<"5","x">>, <<"2","2",".","5">>}

\* Titles "<word> <word> ekim 2025 van"
DayPairTitle(a, b) == JoinParts(<<a, b, W_ekim, Numeral(2025), W_van>>)

\* Titles "2025 ekim <word> van": the year stands before the day
YearFirstTitle(a) == JoinParts(<<Numeral(2025), W_ekim, a, W_van>>)

DayPairTitles ==
    {DayPairTitle(a, b) : a \in DayWords, b \in DayWords}
    \cup {YearFirstTitle(a) : a \in DayWords}

\* The 5th and the 22nd of October 2025
DayTodays == {[year |-> 2025, month |-> 10, day |-> d] : d \in {5, 22}}

TestCases ==
    (DateTitles \X DateTodays)
    \cup ((ProvinceTitles \cup FieldTitles) \X {RefDate})
    \cup (KeywordTitles \X RefWindow)
    \cup (PairTitles \X {RefDate})
    \cup (MonthPairTitles \X MonthTodays)
    \cup (DayPairTitles \X DayTodays)

InitPatterns ==
    /\ pc = "test"
    /\ \E c \in TestCases : basliks = <<c[1]>> /\ today = c[2]
    /\ idx = 1
    /\ pattern_match = NoMatch
    /\ detected_earthquakes = {}
    /\ fetch_count = 0
    /\ events = EmptyBag
    /\ sink_calls = EmptyBag
    /\ sink_failed = {}
    /\ ok_cycles = 0
    /\ polls = 0
    /\ cycle_kind = "start"
    /\ slept = 0
    /\ summary = -1
    /\ days_passed = 0

\* result = is_earthquake_baslik(title)
TestPattern ==
    /\ pc = "test"
    /\ pattern_match' = is_earthquake_baslik(basliks[idx], today)
    /\ pc' = "tested"
    /\ UNCHANGED <<basliks, idx, today, alert_vars, fetch_count, ok_cycles, polls,
                   cycle_kind, slept, summary, days_passed>>

NextPatterns == TestPattern

SpecPatterns == InitPatterns /\ [][NextPatterns]_vars

----------------------------------------------------------------------------
(* Properties of the monitoring loop                                       *)

\* C1: at-most-once alerting.  Over any sequence of poll cycles of one
\* process, save_earthquake_event is called at most once per event
\* identity, also when a sink call fails part-way.
C1_AtMostOnceAlert == \A id \in BagToSet(sink_calls) : CopiesIn(id, sink_calls) <= 1

\* C2: at every cycle boundary and at loop exit, an identity is in the
\* dedup set if and only if an event line was appended for it.
C2_DedupIffEmitted ==
    pc \in {"fetch", "done"} => detected_earthquakes = BagToSet(events)

\* C3: no error is fatal.  The loop never ends on an exception: whatever
\* raises (fetch, sink, logging, logging inside the loop's own exception
\* handler), the loop goes on to the next poll cycle.
C3_NoFatalError == pc # "crashed"

\* C4: clean stop.  When the loop has exited on the stop signal, wherever
\* in the cycle the signal arrived, the summary line with the number of
\* completed checks has been logged.  (An exit in which logging itself
\* raised inside the stop handler is left aside.)
C4_CleanStop == pc \in {"done", "killed"} => summary = fetch_count

\* C5: a sink failure is not retried.  save_earthquake_event is never
\* called again for an identity whose earlier call raised.
C5_SinkFailureNotRetried ==
    pc \in {"save", "save_log"} => earthquake_id(pattern_match) \notin sink_failed

\* C6: heartbeat cadence.  The cycle reaches the heartbeat line exactly
\* when it is a successful cycle (its fetch returned topics) whose number
\* among the successful cycles is a multiple of HEARTBEAT_INTERVAL,
\* however failed or empty cycles are interleaved.
C6_HeartbeatCadence ==
    [][(ok_cycles' = ok_cycles + 1)
          => ((pc' = "heartbeat") <=> (ok_cycles' % HEARTBEAT_INTERVAL = 0))]_vars

\* C7: a failed or empty poll cycle is a no-op on alert state.  From the
\* fetch that failed or returned nothing to the next fetch: no topic is
\* examined, no sink call is made, the dedup set is unchanged, the process
\* does not abort, and exactly one sleep precedes the next fetch.
C7_FailedCycleNoOp ==
    [][(cycle_kind \in {"empty", "failed"})
          => ((UNCHANGED alert_vars)
              /\ (pc' \notin {"heartbeat", "for", "save", "crashed"})
              /\ (pc' = "fetch" => slept' = 1))]_vars

----------------------------------------------------------------------------
(* Properties of is_earthquake_baslik                                      *)

Title == basliks[1]

\* d is a calendar date at most one day from now, by stepping the calendar
LiveDate(y, m, d, now) ==
    LET date == [year |-> y, month |-> m, day |-> d]
    IN  /\ ValidDate(y, m, d)
        /\ (date = now \/ date = NextDay(now) \/ NextDay(date) = now)

\* C8: the temporal filter dominates.  The detector returns a candidate
\* only if its (year, month, day) is a valid calendar date at most one day
\* from the current date; an invalid triple or a date further away gives
\* NoMatch whatever else the title holds.  A title "<day> <month> <year>
\* van" is matched exactly when its date is today, yesterday or tomorrow.
C8_TemporalFilter ==
    pc = "tested" =>
        /\ pattern_match.match
              => LiveDate(pattern_match.year, pattern_match.month, pattern_match.day, today)
        /\ \A d \in DateTitleDays, k \in DateTitleMonths, y \in DateTitleYears :
              Title = DateTitle(d, k, y)
                  => (pattern_match.match <=> LiveDate(y, MONTHS[k].num, d, today))

\* C8 witness: a title dated 1 March matched on 29 February (tomorrow,
\* across the end of a leap February)
C8_Witness ==
    /\ pc = "tested"
    /\ pattern_match.match
    /\ pattern_match.month = 3 /\ pattern_match.day = 1
    /\ today.month = 2 /\ today.day = 29

\* The ASCII-folded spelling of a text: accents dropped, the combining dot
\* removed
FoldPairs ==
    { <<"U+0131","i">>, <<"U+011F","g">>, <<"U+00FC","u">>, <<"U+015F","s">>,
      <<"U+00F6","o">>, <<"U+00E7","c">>, <<"U+00E2","a">>, <<"U+0130","I">>,
      <<"U+011E","G">>, <<"U+00DC","U">>, <<"U+015E","S">>, <<"U+00D6","O">>,
      <<"U+00C7","C">>, <<"U+00C2","A">> }

RECURSIVE AsciiFold(_)
AsciiFold(s) ==
    IF s = <<>> THEN <<>>
    ELSE LET c == Head(s)
         IN  (IF c = "U+0307" THEN <<>>
              ELSE IF \E p \in FoldPairs : p[1] = c
                   THEN <<(CHOOSE p \in FoldPairs : p[1] = c)[2]>>
              ELSE <<c>>) \o AsciiFold(Tail(s))

\* The dedup key a detection result leads to, <<>> for NoMatch
Identity(pm) == IF pm.match THEN earthquake_id(pm) ELSE <<>>

\* C9: province matching is locale-fold-invariant.  A title with the
\* accented spelling of a province (capitalised forms included) and the
\* title with its ASCII-folded spelling, the date fields being the same,
\* yield the same event identity.
C9_FoldInvariant ==
    (pc = "tested" /\ Title \in ProvinceTitles)
        => Identity(pattern_match) = Identity(is_earthquake_baslik(AsciiFold(Title), today))

\* The maximal runs of word characters of s that end at position j
WordRunsEndingAt(s, j) ==
    {SubSeq(s, i, j) : i \in {i \in 1..j : /\ \A k \in i..j : s[k] \in WordChars
                                            /\ ~IsWordAt(s, i - 1)
                                            /\ ~IsWordAt(s, j + 1)}}

\* The tokens of s: its maximal runs of word characters
WordTokens(s) == UNION {WordRunsEndingAt(s, j) : j \in 1..Len(s)}

DayNumerals == {Numeral(n) : n \in 1..31}

HasDayToken(s) == WordTokens(s) \cap DayNumerals # {}

HasYearToken(s) ==
    \E t \in WordTokens(s) :
        Len(t) = 4 /\ t[1] = "2" /\ t[2] = "0" /\ t[3] \in Digits /\ t[4] \in Digits

HasMonthSpelling(s) ==
    LET low == str_lower(s)
    IN  \E i \in 1..Len(low) : \E j \in i..Len(low) : SubSeq(low, i, j) \in MonthNames

\* C10: day, month and year are each necessary.  A title that lacks an
\* integer token in 1..31, or lacks every month spelling as a substring of
\* its lowercase form, or lacks a 4-digit token 20xx, gives NoMatch.
C10_FieldsNecessary ==
    (pc = "tested" /\ (~HasDayToken(Title) \/ ~HasMonthSpelling(Title) \/ ~HasYearToken(Title)))
        => ~pattern_match.match

\* C10 witness: a title with a month, a year token, a province and a
\* keyword but no day token was tested, and was not matched
C10_Witness ==
    /\ pc = "tested"
    /\ ~HasDayToken(Title) /\ HasMonthSpelling(Title) /\ HasYearToken(Title)
    /\ Contains(Title, W_van) /\ Contains(Title, W_depremi)
    /\ ~pattern_match.match

\* s holds w as a substring
HasSubstring(s, w) ==
    \E i \in 1..Len(s) : \E j \in i..Len(s) : SubSeq(s, i, j) = w

\* C11: confidence is decided by the keyword alone.  A returned candidate
\* has confidence "high" if the lowercased title contains "deprem" or
\* "depremi" and "medium" otherwise, and has_earthquake_keyword is true
\* exactly when the confidence is "high"; a title "22 ekim 2025 van
\* <anything>" tested within one day of 22 October 2025 is a candidate with
\* or without a keyword.
C11_ConfidenceByKeyword ==
    pc = "tested" =>
        /\ pattern_match.match =>
              /\ pattern_match.confidence \in {"high", "medium"}
              /\ (pattern_match.confidence = "high")
                    <=> (\/ HasSubstring(str_lower(Title), W_deprem)
                         \/ HasSubstring(str_lower(Title), W_depremi))
              /\ pattern_match.has_earthquake_keyword <=> (pattern_match.confidence = "high")
        /\ (Title \in KeywordTitles /\ LiveDate(2025, 10, 22, today)) => pattern_match.match

\* C11 witness: a title whose only keyword is inside a longer word
\* ("depremzede") was returned with confidence high
C11_Witness ==
    /\ pc = "tested"
    /\ Title = KeywordTitle(<<"d","e","p","r","e","m","z","e","d","e">>)
    /\ pattern_match.match
    /\ pattern_match.confidence = "high"

\* C12: the normalizer never lengthens its input.  For every tested title
\* (titles with the capital dotted I, U+0130, among them) the result of
\* normalize_turkish is at most as long as the title.
C12_NeverLengthens ==
    pc = "tested" => Len(normalize_turkish(Title)) <= Len(Title)

\* w stands in s as a whole word (w begins and ends with a letter)
OccursAsWord(s, w) ==
    \E i \in 1..(Len(s) - Len(w) + 1) :
        /\ SubSeq(s, i, i + Len(w) - 1) = w
        /\ ~IsWordAt(s, i - 1)
        /\ ~IsWordAt(s, i + Len(w))

\* The entries of PROVINCES the title names: the entry as a whole word of
\* the lowercased title, or the normalized entry as a whole word of the
\* normalized title
NamedEntries(title) ==
    {k \in 1..Len(PROVINCES) :
        \/ OccursAsWord(str_lower(title), PROVINCES[k])
        \/ OccursAsWord(normalize_turkish(title), normalize_turkish(PROVINCES[k]))}

\* C16: the province tie-break is by list order.  The province of a
\* candidate is the entry that comes first in PROVINCES among the entries
\* the title names, wherever the names stand in the title: "22 ekim 2025
\* <a> <b>" and "22 ekim 2025 <b> <a>", tested within one day of 22
\* October 2025, give the same result, which is NoMatch exactly when no
\* entry is named as a whole word.
C16_ProvinceByListOrder ==
    pc = "tested" =>
        /\ pattern_match.match =>
              /\ NamedEntries(Title) # {}
              /\ pattern_match.province = PROVINCES[Min(NamedEntries(Title))]
        /\ \A a \in PairWords, b \in PairWords :
              (Title = PairTitle(a, b) /\ LiveDate(2025, 10, 22, today)) =>
                  /\ pattern_match.match <=> (NamedEntries(Title) # {})
                  /\ pattern_match = is_earthquake_baslik(PairTitle(b, a), today)

\* C16 witness: "22 ekim 2025 van adana" was tested and gave adana, the
\* first entry of the list, which stands last in the title
C16_Witness ==
    /\ pc = "tested"
    /\ Title = PairTitle(W_van, <<"a","d","a","n","a">>)
    /\ pattern_match.match
    /\ pattern_match.province = PROVINCES[1]

\* The entries of MONTHS whose spelling is a substring of the lowercased
\* title
SpelledMonths(title) ==
    {k \in 1..Len(MONTHS) : HasSubstring(str_lower(title), MONTHS[k].name)}

\* C17: the month tie-break is by lexicon order and by substring.  The
\* month of a candidate is that of the first entry of MONTHS, in its
\* insertion order, whose spelling is a substring of the lowercased title,
\* also when another spelling stands earlier in the title or the spelling
\* is part of a longer word: "22 <a> <b> 2025 van" is a candidate exactly
\* when the 22nd of that month of 2025 is at most one day from today.
C17_MonthByLexiconOrder ==
    pc = "tested" =>
        /\ pattern_match.match =>
              /\ SpelledMonths(Title) # {}
              /\ pattern_match.month = MONTHS[Min(SpelledMonths(Title))].num
              /\ pattern_match.month_name = MONTHS[Min(SpelledMonths(Title))].name
        /\ Title \in MonthPairTitles =>
              (pattern_match.match
                  <=> /\ SpelledMonths(Title) # {}
                      /\ LiveDate(2025, MONTHS[Min(SpelledMonths(Title))].num, 22, today))

\* C17 witness: "22 ekimde mart 2025 van" was tested on 22 March 2025 and
\* is a candidate for March, the spelling that stands last in the title
C17_Witness ==
    /\ pc = "tested"
    /\ Title = MonthPairTitle(<<"e","k","i","m","d","e">>, W_mart)
    /\ today.month = 3
    /\ pattern_match.match
    /\ pattern_match.month = 3

\* The value of the leftmost token of s that is a numeral of 1..31 (s has
\* such a token)
LeftmostDay(s) ==
    LET first == Min({j \in 1..Len(s) : WordRunsEndingAt(s, j) \cap DayNumerals # {}})
    IN  CHOOSE n \in 1..31 : Numeral(n) \in WordRunsEndingAt(s, first)

\* C18: the day is the leftmost day-shaped token.  The day of a candidate
\* is the leftmost token of the raw title that is an integer in 1..31,
\* never a later one and never digits of a longer number: "<a> <b> ekim
\* 2025 van" and "2025 ekim <a> van" are candidates exactly when such a
\* token exists and the leftmost one, as a day of October 2025, is at most
\* one day from today.
C18_LeftmostDayToken ==
    pc = "tested" =>
        /\ pattern_match.match =>
              /\ HasDayToken(Title)
              /\ pattern_match.day = LeftmostDay(Title)
        /\ Title \in DayPairTitles =>
              (pattern_match.match
                  <=> /\ HasDayToken(Title)
                      /\ LiveDate(2025, 10, LeftmostDay(Title), today))

\* C18 witness: "5 22 ekim 2025 van" was tested on 22 October 2025 and was
\* rejected, the unrelated 5 being taken for the day
C18_Witness ==
    /\ pc = "tested"
    /\ Title = DayPairTitle(<<"5">>, <<"2","2">>)
    /\ today.day = 22
    /\ ~pattern_match.match

----------------------------------------------------------------------------
(* Further properties of the monitoring loop                               *)

\* The date of an event identity is at most one day from now
LiveId(id, now) == LiveDate(id[3], id[2], id[1], now)

\* C13: every alerted identity was live when alerted.  Whenever
\* save_earthquake_event is called, the date of the identity is at most one
\* day from the current date of the detection that produced it, and only an
\* identity passed to save_earthquake_event is ever inserted into
\* detected_earthquakes.
C13_AlertedWhileLive ==
    [][/\ (sink_calls' # sink_calls) => LiveId(earthquake_id(pattern_match'), today)
       /\ \A id \in detected_earthquakes' \ detected_earthquakes :
             id \in BagToSet(sink_calls)]_vars

\* C13 witness: an identity is stored, midnight has passed, and the topic
\* dated 22 October has just been examined again and is no longer matched
C13_Witness ==
    /\ detected_earthquakes # {}
    /\ today # StartDate
    /\ pc = "for" /\ idx = 2
    /\ basliks[1] = "22 ekim 2025 istanbul depremi"
    /\ ~pattern_match.match

\* C14: the dedup store only grows.  Across every step of the loop
\* (successful cycle, empty cycle, fetch error, sink failure, exception in
\* the main loop, stop) the set of stored identities after the step holds
\* every identity it held before the step.
C14_StoreOnlyGrows == [][detected_earthquakes \subseteq detected_earthquakes']_vars

\* C14 witness: two identities are stored, a sink call has failed in an
\* earlier cycle, and the latest fetch has failed
C14_Witness ==
    /\ Cardinality(detected_earthquakes) = 2
    /\ sink_failed # {}
    /\ cycle_kind = "failed"

\* Positions of the detect-and-alert pass of a cycle
AlertPass == {"heartbeat", "for", "save", "save_log", "add"}

\* C15: strict cycle sequencing.  Every call of fetch_gundem but the first
\* comes after exactly one sleep since the call before it, on the normal
\* path as well as through the exception handler; there is never a second
\* sleep without a fetch in between; and the detect-and-alert pass runs
\* only in a cycle whose fetch has returned topics.
C15_CycleSequencing ==
    [][/\ (polls' # polls) => (polls' = polls + 1 /\ (polls = 0 \/ slept = 1))
       /\ slept' <= 1
       /\ (pc' \in AlertPass) => (cycle_kind' = "topics" /\ slept' = 0)]_vars

\* C15 witness: a sink call failed in an earlier cycle (the handler slept),
\* and a later cycle has fetched and is in its detect-and-alert pass
C15_Witness ==
    /\ polls >= 2
    /\ sink_failed # {}
    /\ pc = "for"
    /\ slept = 0

\* C19: a failure while processing one topic abandons the rest of the
\* batch.  When save_earthquake_event raises for the topic at position idx,
\* the stored identities stay as they are and the position does not move;
\* from the exception handler no topic is examined, no sink call is made
\* and nothing is stored or removed; a detect-and-alert pass starts only
\* from a fetch, at position 1 of the batch it returned; and every sink
\* call is for the topic at the current position of the current batch.
C19_FailureAbandonsBatch ==
    [][/\ (pc \in {"save", "save_log"} /\ pc' = "handler_log")
             => UNCHANGED <<idx, basliks, detected_earthquakes>>
       /\ (pc \in ExceptBody)
             => (pc' \notin AlertPass
                 /\ UNCHANGED <<idx, basliks, detected_earthquakes, events, sink_calls>>)
       /\ (pc \notin AlertPass /\ pc' \in AlertPass)
             => (pc = "fetch" /\ idx' = 1 /\ polls' = polls + 1)
       /\ (sink_calls' # sink_calls)
             => (/\ pc = "for" /\ idx \in 1..Len(basliks)
                 /\ basliks' = basliks
                 /\ pattern_match' = pattern_table[basliks[idx]][days_passed]
                 /\ sink_calls' = AddCopy(sink_calls, earthquake_id(pattern_match')))]_vars

\* C19 witness: the sink call for the first of two topics raised, the
\* loop is in its handler, and the second topic, a live earthquake title
\* of another identity, has not been alerted
C19_Witness ==
    /\ pc = "handler_sleep"
    /\ cycle_kind = "topics"
    /\ idx = 1 /\ Len(basliks) = 2
    /\ earthquake_id(pattern_match) \in sink_failed
    /\ pattern_table[basliks[2]][days_passed].match
    /\ earthquake_id(pattern_table[basliks[2]][days_passed]) \notin BagToSet(sink_calls)

====
